---- MODULE Spec2Model ----
(***************************************************************************)
(* The two dashboard scripts of the repository as state machines:          *)
(*   Dashboardv3/GenerateCharts.py  (script "v3", 17 charts, HTML + PNG)   *)
(*   Dashboradv2/index.py           (script "v2", 15 charts, HTML only)    *)
(* One run of one script: the files the run finds (CSV, brand JSON, the    *)
(* output directories), the table it loads, the module-level variables the *)
(* charts share, and the files it writes.                                  *)
(***************************************************************************)
EXTENDS Integers, Sequences, FiniteSets, TLC

(***************************************************************************)
(* Bounds of the model.                                                    *)
(***************************************************************************)
\* longest CSV (data rows) a run is given
MaxRows == 2

\* the chart blocks a rearranged GenerateCharts.py starts before a block they
\* depend on
MaxOutOfOrder == 1

\* the calls of a rearranged main
MaxCalls == 3

\* longest text handed to wrap_text, in characters of Chars
MaxText == 5

\* largest max_length handed to wrap_text
MaxWidth == 4

(***************************************************************************)
(* Cells.  A CSV field is the text of a number, an empty field, or any     *)
(* other text.  pandas.read_csv gives a column whose fields are all        *)
(* numbers or empty a float dtype (numbers and NaN); as soon as one field  *)
(* of the column is other text the column is of dtype object and every     *)
(* non-empty field stays a Python str, the numeric ones included.          *)
(***************************************************************************)
Num(n) == [k |-> "num", v |-> n, s |-> ""]
NaN == [k |-> "nan", v |-> 0, s |-> ""]
\* a Python str that is not the text of a number
Str(t) == [k |-> "str", v |-> 0, s |-> t]
\* a Python str that is the text of the number n (a cell of an object column)
NumStr(n) == [k |-> "numstr", v |-> n, s |-> ""]
\* a Python str that is the text of the number n followed by '%'
Pct(n) == [k |-> "pct", v |-> n, s |-> ""]

\* the columns of empresasEafit.csv the two scripts read, by an ASCII id
ColName ==
    [ RazonSocial |-> "Razon social",
      Macrosector |-> "Macrosector",
      Bloque |-> "Bloque",
      NombrePilar |-> "Nombre Pilar",
      Variable |-> "Variable",
      valoracionPonderada |-> "valoracionPonderada",
      Valoracion |-> "Valoracion",
      PonderacionMaterialidad |-> "Ponderacion Materialidad",
      IngresosOperacionales |-> "Ingresos operacionales",
      AnoFundacion |-> "Ano de fundacion",
      Multinacional |-> "Multinacional? Si/No",
      CotizaBolsa |-> "Cotiza en bolsa? Si/No",
      EmpresaFamiliar |-> "Es empresa familiar? Si/No",
      TipoPropiedad |-> "Tipo de propiedad (Privada, Publica, Mixta)" ]

ColIds == DOMAIN ColName

\* a column label of the CSV header: the name with lead/trail blanks around it
Label(c, lead, trail) == [name |-> ColName[c], lead |-> lead, trail |-> trail]

\* str.strip() on a column label
Strip(l) == [l EXCEPT !.lead = 0, !.trail = 0]

\* the paddings of the header's labels a run may meet
Paddings == { [lead |-> 0, trail |-> 0], [lead |-> 1, trail |-> 2] }

\* a data row of the CSV, as text fields
CsvRow(company, sector, bloque, pilar, variable, score, income, year, multi) ==
    [ RazonSocial |-> Str(company),
      Macrosector |-> sector,
      Bloque |-> Str(bloque),
      NombrePilar |-> Str(pilar),
      Variable |-> Str(variable),
      valoracionPonderada |-> score,
      Valoracion |-> score,
      PonderacionMaterialidad |-> Pct(10),
      IngresosOperacionales |-> income,
      AnoFundacion |-> year,
      Multinacional |-> Str(multi),
      CotizaBolsa |-> Str("No"),
      EmpresaFamiliar |-> Str("No"),
      TipoPropiedad |-> Str("Privada") ]

\* the rows a CSV is made of
PoolRows ==
    << CsvRow("A", Str("Industria"), "B1", "P1", "V1", Num(2), Num(5), Num(1990), "Si"),
       CsvRow("A", Str("Industria"), "B1", "P2", "V2", NaN, NaN, Str("s.f."), "Si"),
       CsvRow("B", Str("Industria"), "B2", "P1", "V1", Num(3), Str("N/A"), Num(2001), "No"),
       CsvRow("B", Str("Comercio"), "B1", "P2", "V1", Num(1), Num(4), NaN, "No"),
       CsvRow("C", Str("No informa"), "B1", "P1", "V1", Num(2), Num(3), Num(1985), "No"),
       CsvRow("D", Str("Si"), "B2", "P2", "V2", Num(1), Num(0), Num(2010), "Si"),
       CsvRow("D", Str("Comercio"), "B2", "P2", "V2", Str("abc"), Num(0), Num(2010), "Si") >>

RowPool == { PoolRows[i] : i \in DOMAIN PoolRows }

RECURSIVE SeqsUpTo(_, _)
\* the sequences over S of length at most n
SeqsUpTo(S, n) ==
    IF n = 0 THEN { <<>> }
    ELSE LET shorter == SeqsUpTo(S, n - 1)
         IN  shorter \cup { Append(q, x) : q \in { r \in shorter : Len(r) = n - 1 }, x \in S }

\* a second row of company A that answers the multinational question and
\* the ownership type otherwise than its first row, PoolRows[1]
MixedRow ==
    [CsvRow("A", Str("Industria"), "B1", "P2", "V2", Num(1), Num(5), Num(1990), "No")
        EXCEPT !.TipoPropiedad = Str("Mixta")]

\* a row of a second multinational company of the sector of company A, with
\* an income of its own
PeerRow(score) ==
    CsvRow("B", Str("Industria"), "B2", "P1", "V1", Num(score), Num(4), Num(2001), "Si")

\* a row of a company of another sector for the pillar and variable of
\* PoolRows[1]
RivalRow(score) ==
    CsvRow("C", Str("Comercio"), "B1", "P1", "V1", Num(score), Num(3), Num(1985), "No")

\* further CSVs: a company whose first row has no income and whose second row
\* has one, next to another company; a company whose two rows differ in the
\* multinational flag and the ownership type; two multinational companies of
\* one sector, with different scores and with the same score; a variable
\* scored in two sectors, by more companies in one than in the other, and
\* with the same mean in both
LongerRows ==
    { << PoolRows[2], PoolRows[1], PoolRows[4] >>,
      << PoolRows[1], MixedRow >>,
      << PoolRows[1], PeerRow(3) >>,
      << PoolRows[1], PeerRow(2) >>,
      << PoolRows[1], PeerRow(3), RivalRow(6) >>,
      << PoolRows[1], RivalRow(2) >> }

\* the CSV files a run may meet: a header and up to MaxRows data rows
CsvFiles ==
    { [exists |-> TRUE, labels |-> [c \in ColIds |-> Label(c, p.lead, p.trail)], rows |-> rs] :
        p \in Paddings, rs \in SeqsUpTo(RowPool, MaxRows) \cup LongerRows }

\* no file of that name in the working directory
NoFile == [exists |-> FALSE, labels |-> <<>>, rows |-> <<>>]

(***************************************************************************)
(* Tables (DataFrames).                                                    *)
(***************************************************************************)
\* Python's None, and a name the script has not bound yet
None == [none |-> TRUE, labels |-> <<>>, rows |-> <<>>, object |-> {}]

\* a DataFrame: column labels, rows, and the columns of dtype object
Table(labels, rows, object) ==
    [none |-> FALSE, labels |-> labels, rows |-> rows, object |-> object]

\* the cells of column c
Column(rows, c) == [i \in 1..Len(rows) |-> rows[i][c]]

\* pd.read_csv's dtype inference for one field of a column
ParseCell(cell, object) ==
    IF object /\ cell.k = "num" THEN NumStr(cell.v) ELSE cell

\* the columns whose fields are never the text of a number
CategoricalCols ==
    { "RazonSocial", "Bloque", "NombrePilar", "Variable", "PonderacionMaterialidad",
      "Multinacional", "CotizaBolsa", "EmpresaFamiliar", "TipoPropiedad" }

\* pd.read_csv('empresasEafit.csv')
read_csv(file) ==
    LET textual == { c \in ColIds : \E i \in 1..Len(file.rows) :
                                       file.rows[i][c].k \in {"str", "pct"} }
    IN  Table(file.labels,
              [i \in 1..Len(file.rows) |->
                  [c \in ColIds |-> ParseCell(file.rows[i][c], c \in textual)]],
              textual \cup CategoricalCols)

\* df[name]: the column whose label is exactly name, if there is one
HasColumn(t, c) == t.labels[c] = Label(c, 0, 0)

\* pd.to_numeric(x, errors='coerce') on one cell
to_numeric(cell) ==
    IF cell.k \in {"num", "numstr"} THEN Num(cell.v) ELSE NaN

\* Series.fillna(0) on one cell
fillna0(cell) == IF cell.k = "nan" THEN Num(0) ELSE cell

RECURSIVE SelectSeq2(_, _, _)
\* the rows of s whose index satisfies keep, in order
SelectSeq2(s, keep, i) ==
    IF i > Len(s) THEN <<>>
    ELSE IF keep[i] THEN <<s[i]>> \o SelectSeq2(s, keep, i + 1)
    ELSE SelectSeq2(s, keep, i + 1)

\* df[mask]: boolean-mask row selection
Where(rows, Keep(_)) == SelectSeq2(rows, [i \in 1..Len(rows) |-> Keep(rows[i])], 1)

(***************************************************************************)
(* Aggregation (pandas groupby / pivot), computed as pandas computes it.   *)
(***************************************************************************)
RECURSIVE GCD(_, _)
GCD(a, b) == IF b = 0 THEN a ELSE GCD(b, a % b)

Abs(x) == IF x < 0 THEN 0 - x ELSE x

\* the float NaN as the value of an aggregate
FracNaN == [n |-> 0, d |-> 0]

\* the rational n/d in lowest terms (a mean of integer scores)
Frac(n, d) ==
    IF d = 0 THEN FracNaN
    ELSE LET g == GCD(Abs(n), d) IN [n |-> n \div g, d |-> d \div g]

\* a - b on two rationals
FracSub(a, b) == Frac(a.n * b.d - b.n * a.d, a.d * b.d)

\* a >= b on two rationals
FracGeq(a, b) == a.n * b.d >= b.n * a.d

RECURSIVE NumSum(_, _)
\* the sum of the numbers among cells[i..], NaN skipped
NumSum(cells, i) ==
    IF i > Len(cells) THEN 0
    ELSE (IF cells[i].k = "num" THEN cells[i].v ELSE 0) + NumSum(cells, i + 1)

\* the numbers among the cells
NumCount(cells) == Cardinality({ i \in 1..Len(cells) : cells[i].k = "num" })

\* a cell that holds a Python str
IsStr(cell) == cell.k \in {"str", "numstr", "pct"}

\* GroupBy.sum of one group: NaN is skipped, an all-NaN group sums to 0, and
\* Python strs are added as Python adds them, by concatenation
SumAgg(cells) ==
    IF \E i \in 1..Len(cells) : IsStr(cells[i]) THEN Str("<concatenated>")
    ELSE Num(NumSum(cells, 1))

\* GroupBy.mean of one group of a float column: NaN is skipped, an all-NaN
\* group has mean NaN
MeanAgg(cells) == Frac(NumSum(cells, 1), NumCount(cells))

\* the group keys of df.groupby(cols): rows with a null key are dropped
Keys(rows, cols) ==
    { [c \in cols |-> rows[i][c]] :
        i \in { j \in 1..Len(rows) : \A c \in cols : rows[j][c].k # "nan" } }

\* the rows of one group, in the table's order
Group(rows, key) == Where(rows, LAMBDA r : \A c \in DOMAIN key : r[c] = key[c])

\* df.groupby(cols)[c].sum()
GroupSum(rows, cols, c) ==
    [key \in Keys(rows, cols) |-> SumAgg(Column(Group(rows, key), c))]

\* df.groupby(cols)[c].mean() on a float column
GroupMean(rows, cols, c) ==
    [key \in Keys(rows, cols) |-> MeanAgg(Column(Group(rows, key), c))]

\* GroupBy.last of one group: the last value that is not null
Last(cells) ==
    IF \A i \in 1..Len(cells) : cells[i].k = "nan" THEN NaN
    ELSE cells[CHOOSE i \in 1..Len(cells) :
                   /\ cells[i].k # "nan"
                   /\ \A j \in (i + 1)..Len(cells) : cells[j].k = "nan"]

\* GroupBy.first of one group: the first value that is not null
First(cells) ==
    IF \A i \in 1..Len(cells) : cells[i].k = "nan" THEN NaN
    ELSE cells[CHOOSE i \in 1..Len(cells) :
                   /\ cells[i].k # "nan"
                   /\ \A j \in 1..(i - 1) : cells[j].k = "nan"]

\* the values of column c
Values(rows, c) == { rows[i][c] : i \in 1..Len(rows) }

\* a wide table whose cells of absent pairs are left null
PivotUnfilled(long, ic, cc, fill) ==
    LET index == { key[ic] : key \in DOMAIN long }
        columns == { key[cc] : key \in DOMAIN long }
    IN  [ index |-> index,
          columns |-> columns,
          cell |-> [pair \in index \X columns |->
                      LET key == [x \in {ic, cc} |-> IF x = ic THEN pair[1] ELSE pair[2]]
                      IN  IF key \in DOMAIN long THEN long[key] ELSE NaN] ]

\* a wide table: one row per index value, one column per columns value, the
\* cell of a pair absent from long filled with fill
Pivot(long, ic, cc, fill) ==
    LET index == { key[ic] : key \in DOMAIN long }
        columns == { key[cc] : key \in DOMAIN long }
    IN  [ index |-> index,
          columns |-> columns,
          cell |-> [pair \in index \X columns |->
                      LET key == [x \in {ic, cc} |-> IF x = ic THEN pair[1] ELSE pair[2]]
                      IN  IF key \in DOMAIN long THEN long[key] ELSE fill] ]

\* the entries of a keyed aggregate that are not NaN
NotNaN(long) == [key \in { q \in DOMAIN long : long[q] # FracNaN } |-> long[key]]

\* DataFrame.fillna(0) on a keyed aggregate of means
FillMeans(long) ==
    [key \in DOMAIN long |-> IF long[key] = FracNaN THEN Frac(0, 1) ELSE long[key]]

\* a + b on two rationals
FracAdd(a, b) == Frac(a.n * b.d + b.n * a.d, a.d * b.d)

RECURSIVE FracSum(_)
\* the sum of a set of keyed rationals, given as a function
FracSum(f) ==
    IF DOMAIN f = {} THEN Frac(0, 1)
    ELSE LET x == CHOOSE y \in DOMAIN f : TRUE
         IN  FracAdd(f[x], FracSum([y \in DOMAIN f \ {x} |-> f[y]]))

\* the texts of the pool in Python's str order (the order groupby sorts keys in)
StrOrder ==
    << "A", "B", "B1", "B2", "C", "Comercio", "D", "Industria", "No", "No informa",
       "P1", "P2", "Privada", "Si", "V1", "V2" >>

\* a < b on two cells that hold texts of the pool
StrLt(a, b) ==
    \E i, j \in 1..Len(StrOrder) : i < j /\ StrOrder[i] = a.s /\ StrOrder[j] = b.s

(***************************************************************************)
(* Dashboardv3/GenerateCharts.py: the loader and the 17 chart procedures.  *)
(***************************************************************************)
Score == "valoracionPonderada"

\* a module-level name no statement has bound yet, and one bound to a value
Unbound == [bound |-> FALSE, value |-> <<>>]
Bound(v) == [bound |-> TRUE, value |-> <<v>>]
ValueOf(b) == b.value[1]

\* Series.isin(texts) on one cell
IsIn(cell, texts) ==
    \/ cell.k = "str" /\ cell.s \in texts
    \/ cell.k = "numstr" /\ cell.v = 0 /\ "0" \in texts

\* a sentinel list that lacks 'Si'
SentinelsWithoutSi == {"0", "No", "No informa", "SI"}

\* the placeholder values of Macrosector the loader filters out
Sentinels == {"0", "No", "No informa", "SI", "Si"}

\* raw_data.rename(columns=lambda x: x.strip(), inplace=True)
StripColumns(t) == [t EXCEPT !.labels = [c \in DOMAIN t.labels |-> Strip(t.labels[c])]]

\* raw_data[~raw_data['Macrosector'].isin([...])]
FilterSentinels(t) ==
    [t EXCEPT !.rows = Where(t.rows, LAMBDA r : ~IsIn(r.Macrosector, Sentinels))]

\* lines 64-66: the table the charts start from, or the error the loader raises
LoadRawData(file) ==
    IF ~file.exists THEN [err |-> "FileNotFoundError", table |-> None]
    ELSE LET stripped == StripColumns(read_csv(file))
         IN  IF ~HasColumn(stripped, "Macrosector") THEN [err |-> "KeyError", table |-> None]
             ELSE [err |-> "", table |-> FilterSentinels(stripped)]

\* chart 1: mean score per (sector, pillar), pillars as rows, absent pairs 0
radar_final_df(rd) ==
    Pivot(NotNaN(GroupMean(rd.rows, {"Macrosector", "NombrePilar"}, Score)),
          "NombrePilar", "Macrosector", Frac(0, 1))

\* chart 2: summed score per (company, pillar), absent pairs 0
heatmap_pivot(rd) ==
    Pivot(GroupSum(rd.rows, {"RazonSocial", "NombrePilar"}, Score),
          "RazonSocial", "NombrePilar", Num(0))

\* chart 3: one total score per (company, sector)
total_scores(rd) == GroupSum(rd.rows, {"RazonSocial", "Macrosector"}, Score)

\* chart 4 coercing a copy and leaving raw_data alone
CoerceOnCopy(rd) == rd

\* chart 4, lines 222-223: the score and income columns of raw_data are
\* replaced by their numeric coercion, nulls filled with 0
CoerceScoreIncome(rd) ==
    [rd EXCEPT
        !.rows = [i \in 1..Len(rd.rows) |->
                    [rd.rows[i] EXCEPT
                        !.valoracionPonderada = fillna0(to_numeric(@)),
                        !.IngresosOperacionales = fillna0(to_numeric(@))]],
        !.object = @ \ {"valoracionPonderada", "IngresosOperacionales"}]

\* income >= 0, which lets a zero through
NonNegative(cell) == cell.k = "num" /\ cell.v >= 0

\* x > 0 on one cell of a numeric column (NaN > 0 is False)
Positive(cell) == cell.k = "num" /\ cell.v > 0

\* chart 4, lines 224-229: one row per company with its summed score, the
\* income and sector of its first row, companies without income dropped
company_agg(rd) ==
    LET all == { [ RazonSocial |-> key.RazonSocial,
                   Puntaje_Total_Sostenibilidad |-> SumAgg(Column(Group(rd.rows, key), Score)),
                   Ingresos_Operacionales |->
                       First(Column(Group(rd.rows, key), "IngresosOperacionales")),
                   Macrosector |-> First(Column(Group(rd.rows, key), "Macrosector")) ] :
                 key \in Keys(rd.rows, {"RazonSocial"}) }
    IN  { r \in all : Positive(r.Ingresos_Operacionales) }

\* chart 5 coercing the year and dropping the rows without one from raw_data
\* itself
CoerceYearDropRows(rd) ==
    [rd EXCEPT
        !.rows = Where([i \in 1..Len(rd.rows) |->
                          [rd.rows[i] EXCEPT !.AnoFundacion = to_numeric(@)]],
                       LAMBDA r : r.AnoFundacion.k # "nan"),
        !.object = @ \ {"AnoFundacion"}]

\* chart 5, line 260: the year column of raw_data is replaced by its coercion
CoerceYear(rd) ==
    [rd EXCEPT
        !.rows = [i \in 1..Len(rd.rows) |->
                    [rd.rows[i] EXCEPT !.AnoFundacion = to_numeric(@)]],
        !.object = @ \ {"AnoFundacion"}]

\* chart 5, lines 261-269
bubble_chart_data(rd) ==
    LET all == { [ RazonSocial |-> key.RazonSocial,
                   Puntaje_Total_Sostenibilidad |-> SumAgg(Column(Group(rd.rows, key), Score)),
                   Ingresos_Operacionales |->
                       First(Column(Group(rd.rows, key), "IngresosOperacionales")),
                   Macrosector |-> First(Column(Group(rd.rows, key), "Macrosector")),
                   Ano_Fundacion |-> First(Column(Group(rd.rows, key), "AnoFundacion")) ] :
                 key \in Keys(rd.rows, {"RazonSocial"}) }
    IN  { r \in all : /\ r.Ano_Fundacion.k # "nan"
                      /\ r.Ingresos_Operacionales.k # "nan"
                      /\ Positive(r.Ingresos_Operacionales) }

\* chart 6, lines 299-314: summed score per (company, pillar) in wide form,
\* left-merged with company_agg_data; dimensions are the pillar columns
parallel_coords(rd, cad) ==
    LET wide == Pivot(GroupSum(rd.rows, {"RazonSocial", "NombrePilar"}, Score),
                      "RazonSocial", "NombrePilar", Num(0))
        Match(company) == { r \in cad : r.RazonSocial = company }
    IN  [ index |-> wide.index,
          dimensions |-> wide.columns,
          cell |-> wide.cell,
          Macrosector |-> [co \in wide.index |->
              IF Match(co) = {} THEN NaN ELSE (CHOOSE r \in Match(co) : TRUE).Macrosector],
          Puntaje_Total_Sostenibilidad |-> [co \in wide.index |->
              IF Match(co) = {} THEN NaN
              ELSE (CHOOSE r \in Match(co) : TRUE).Puntaje_Total_Sostenibilidad] ]

\* (a[c1], a[c2]) < (b[c1], b[c2]): the order groupby([c1, c2]) sorts its
\* keys in
KeyLt(a, b, c1, c2) ==
    StrLt(a[c1], b[c1]) \/ (a[c1] = b[c1] /\ StrLt(a[c2], b[c2]))

\* the keys of a groupby([c1, c2]) aggregate in sorted order
SortedKeys(keys, c1, c2) ==
    [i \in 1..Cardinality(keys) |->
        CHOOSE x \in keys : Cardinality({ y \in keys : KeyLt(y, x, c1, c2) }) = i - 1]

\* chart 7, lines 334-337: the summed score per (c1, c2), one link per pair
\* in sorted order, c1 renamed source and c2 target
Flow(rd, c1, c2) ==
    LET agg == GroupSum(rd.rows, {c1, c2}, Score)
        keys == SortedKeys(DOMAIN agg, c1, c2)
    IN  [i \in 1..Len(keys) |->
            [source |-> keys[i][c1], target |-> keys[i][c2], value |-> agg[keys[i]]]]

\* chart 7, lines 338-339: block -> pillar links, then pillar -> sector
\* links, those of positive value
sankey_links(rd) ==
    Where(Flow(rd, "Bloque", "NombrePilar") \o Flow(rd, "NombrePilar", "Macrosector"),
          LAMBDA l : Positive(l.value))

\* chart 7, line 340: sankey_data[['source', 'target']].values.ravel('K'),
\* the two columns one after the other as the frame stores them
Ravel(links) ==
    [i \in 1..Len(links) |-> links[i].source] \o [i \in 1..Len(links) |-> links[i].target]

\* a node list that keeps every appearance
KeepAll(seq) == seq

\* pd.unique: the first appearance of each value, in order of appearance
Unique(seq) ==
    SelectSeq2(seq, [i \in 1..Len(seq) |-> \A j \in 1..(i - 1) : seq[j] # seq[i]], 1)

\* chart 7, line 341: {node: i for i, node in enumerate(unique_nodes)}; a
\* node listed twice keeps its last index
node_mapping(nodes) ==
    [n \in { nodes[i] : i \in 1..Len(nodes) } |->
        (CHOOSE i \in 1..Len(nodes) :
            nodes[i] = n /\ \A j \in (i + 1)..Len(nodes) : nodes[j] # n) - 1]

\* chart 7, lines 334-343: the node labels and the links with their node ids
sankey_data(rd) ==
    LET links == sankey_links(rd)
        unique_nodes == Unique(Ravel(links))
        ids == node_mapping(unique_nodes)
    IN  [ label |-> unique_nodes,
          link |-> [i \in 1..Len(links) |->
                      [ source |-> links[i].source, target |-> links[i].target,
                        value |-> links[i].value,
                        source_id |-> ids[links[i].source],
                        target_id |-> ids[links[i].target] ]] ]

\* chart 8, lines 366-367: the rows with a block, a pillar and a positive score
sunburst_data(rd) ==
    LET kept == Where(rd.rows, LAMBDA r : /\ r.Bloque.k # "nan"
                                          /\ r.NombrePilar.k # "nan"
                                          /\ Positive(r.valoracionPonderada))
    IN  [i \in 1..Len(kept) |->
            [ Bloque |-> kept[i].Bloque, NombrePilar |-> kept[i].NombrePilar,
              valoracionPonderada |-> kept[i].valoracionPonderada ]]

\* chart 9, line 390: the pillar columns of chart 6's table
pillar_data(pcd) ==
    [index |-> pcd.index, columns |-> pcd.dimensions, cell |-> pcd.cell]

\* the score of a row of company_agg_data as a rational
Puntaje(r) == Frac(r.Puntaje_Total_Sostenibilidad.v, 1)

\* chart 10, lines 409-410: mean total score of the companies of a sector
sector_avg_score(cad, sector) ==
    LET members == { r \in cad : r.Macrosector = sector }
    IN  Frac(FracSum([r \in members |-> Puntaje(r)]).n, Cardinality(members))

\* chart 10, lines 411-413
diverging_data(cad) ==
    { [ RazonSocial |-> r.RazonSocial,
        Macrosector |-> r.Macrosector,
        Diferencia_vs_Promedio |-> FracSub(Puntaje(r), sector_avg_score(cad, r.Macrosector)),
        Desempeno_Relativo |->
            IF FracGeq(FracSub(Puntaje(r), sector_avg_score(cad, r.Macrosector)), Frac(0, 1))
            THEN "Superior al Promedio" ELSE "Inferior al Promedio" ] :
      r \in { q \in cad : q.Macrosector.k # "nan" } }

\* charts 11 and 12, lines 440-442 and 464-466: company_agg_data merged with
\* the distinct (company, attribute) pairs of raw_data, null attributes dropped
MergeAttribute(rd, cad, c) ==
    UNION { { [ RazonSocial |-> r.RazonSocial,
                Puntaje_Total_Sostenibilidad |-> r.Puntaje_Total_Sostenibilidad,
                attribute |-> rd.rows[i][c] ] :
              i \in { j \in 1..Len(rd.rows) : /\ rd.rows[j].RazonSocial = r.RazonSocial
                                             /\ rd.rows[j][c].k # "nan" } } :
            r \in cad }

boxplot_data(rd, cad) == MergeAttribute(rd, cad, "TipoPropiedad")

\* chart 12, lines 467-488: per group its companies, and whether the group
\* has more than one data point and so a density curve
density_data(rd, cad) ==
    LET merged == MergeAttribute(rd, cad, "Multinacional")
        groups == [Multinacional |-> "Si", Nacional |-> "No"]
    IN  [g \in DOMAIN groups |->
            LET current == { r \in merged : r.attribute = Str(groups[g]) }
            IN  [points |-> current, curve |-> Cardinality(current) > 1]]

\* chart 12, line 476: gaussian_kde raises numpy.linalg.LinAlgError on a
\* group whose points all have the same score
SingularKde(dd) ==
    \E g \in DOMAIN dd :
        /\ dd[g].curve
        /\ Cardinality({ r.Puntaje_Total_Sostenibilidad : r \in dd[g].points }) = 1

\* chart 13, lines 501-506: mean score per (variable, sector), absent pairs 0
var_importance_matrix(rd) ==
    Pivot(FillMeans(GroupMean(rd.rows, {"Macrosector", "Variable"}, Score)),
          "Variable", "Macrosector", Frac(0, 1))

\* chart 14, line 526
scatter_data(cad) == { r \in cad : Positive(r.Ingresos_Operacionales) }

\* chart 15, lines 550-555: summed score per (sector, pillar), absent pairs 0
chord_matrix(rd) ==
    Pivot(GroupSum(rd.rows, {"Macrosector", "NombrePilar"}, Score),
          "Macrosector", "NombrePilar", Num(0))

\* charts 16 and 17 with the mean of all the rows of the (pillar, variable)
\* pair as the plotted value
PlotDataMeanOverRows(rd) ==
    LET df_agg == NotNaN(GroupMean(rd.rows, {"NombrePilar", "Variable", "Macrosector"}, Score))
        pairs == { [NombrePilar |-> key.NombrePilar, Variable |-> key.Variable] :
                     key \in DOMAIN df_agg }
        Of(pair) == { key \in DOMAIN df_agg :
                        key.NombrePilar = pair.NombrePilar /\ key.Variable = pair.Variable }
        Leader(pair) ==
            CHOOSE key \in Of(pair) :
                \A other \in Of(pair) \ {key} :
                    \/ ~FracGeq(df_agg[other], df_agg[key])
                    \/ df_agg[other] = df_agg[key]
                       /\ StrLt(key.Macrosector, other.Macrosector)
    IN  [pair \in pairs |->
            [ valoracionPonderada |-> MeanAgg(Column(Group(rd.rows, pair), Score)),
              Sector_Lider |-> Leader(pair).Macrosector ]]

\* charts 16 and 17, lines 574-579 and 606-614: per (pillar, variable) the
\* mean of the per-sector means and the sector whose mean is largest (the
\* first in sorted sector order on a tie)
df_plot_data(rd) ==
    LET df_agg == NotNaN(GroupMean(rd.rows, {"NombrePilar", "Variable", "Macrosector"}, Score))
        pairs == { [NombrePilar |-> key.NombrePilar, Variable |-> key.Variable] :
                     key \in DOMAIN df_agg }
        Of(pair) == { key \in DOMAIN df_agg :
                        key.NombrePilar = pair.NombrePilar /\ key.Variable = pair.Variable }
        Leader(pair) ==
            CHOOSE key \in Of(pair) :
                \A other \in Of(pair) \ {key} :
                    \/ ~FracGeq(df_agg[other], df_agg[key])
                    \/ df_agg[other] = df_agg[key]
                       /\ StrLt(key.Macrosector, other.Macrosector)
    IN  [pair \in pairs |->
            [ valoracionPonderada |->
                  Frac(FracSum([key \in Of(pair) |-> df_agg[key]]).n,
                       FracSum([key \in Of(pair) |-> df_agg[key]]).d * Cardinality(Of(pair))),
              Sector_Lider |-> Leader(pair).Macrosector ]]

\* the (pillar, variable) pairs all of whose per-sector means are NaN
AllNaNPairs(rd) ==
    LET m == GroupMean(rd.rows, {"NombrePilar", "Variable", "Macrosector"}, Score)
    IN  { [NombrePilar |-> key.NombrePilar, Variable |-> key.Variable] : key \in DOMAIN m }
        \ { [NombrePilar |-> key.NombrePilar, Variable |-> key.Variable] :
              key \in DOMAIN NotNaN(m) }

\* what one chart procedure of GenerateCharts.py does with the names it
\* reads: the exception it raises if any, the table it hands to the
\* renderer, and the module-level names as it leaves them
V3Step(k, rd, cad, pcd) ==
    LET Same(e, d) == [err |-> e, data |-> <<d>>, rd |-> rd, cad |-> cad, pcd |-> pcd]
        Fail(e) == [err |-> e, data |-> <<>>, rd |-> rd, cad |-> cad, pcd |-> pcd]
        object == Score \in rd.object
    IN  CASE k = 1 ->
               IF object THEN Fail("TypeError")
               ELSE IF radar_final_df(rd).columns = {} THEN Fail("ValueError")
               ELSE Same("", radar_final_df(rd))
          [] k = 2 -> Same("", heatmap_pivot(rd))
          [] k = 3 -> Same("", total_scores(rd))
          [] k = 4 ->
               LET coerced == CoerceScoreIncome(rd)
                   agg == company_agg(coerced)
               IN  [ err |-> IF agg = {} THEN "ZeroDivisionError" ELSE "",
                     data |-> <<agg>>, rd |-> coerced, cad |-> Bound(agg), pcd |-> pcd ]
          [] k = 5 ->
               LET coerced == CoerceYear(rd)
               IN  [ err |-> "", data |-> <<bubble_chart_data(coerced)>>,
                     rd |-> coerced, cad |-> cad, pcd |-> pcd ]
          [] k = 6 ->
               IF ~cad.bound THEN Fail("NameError")
               ELSE LET wide == parallel_coords(rd, ValueOf(cad))
                    IN  [ err |-> "", data |-> <<wide>>,
                          rd |-> rd, cad |-> cad, pcd |-> Bound(wide) ]
          [] k = 7 -> IF object THEN Fail("TypeError") ELSE Same("", sankey_data(rd))
          [] k = 8 -> IF object THEN Fail("TypeError") ELSE Same("", sunburst_data(rd))
          [] k = 9 ->
               IF ~pcd.bound THEN Fail("NameError")
               ELSE Same("", pillar_data(ValueOf(pcd)))
          [] k = 10 ->
               IF ~cad.bound THEN Fail("NameError")
               ELSE Same("", diverging_data(ValueOf(cad)))
          [] k = 11 ->
               IF ~cad.bound THEN Fail("NameError")
               ELSE Same("", boxplot_data(rd, ValueOf(cad)))
          [] k = 12 ->
               IF ~cad.bound THEN Fail("NameError")
               ELSE IF SingularKde(density_data(rd, ValueOf(cad))) THEN Fail("LinAlgError")
               ELSE Same("", density_data(rd, ValueOf(cad)))
          [] k = 13 ->
               IF object THEN Fail("TypeError") ELSE Same("", var_importance_matrix(rd))
          [] k = 14 ->
               IF ~cad.bound THEN Fail("NameError")
               ELSE Same("", scatter_data(ValueOf(cad)))
          [] k = 15 -> Same("", chord_matrix(rd))
          [] OTHER ->
               IF object THEN Fail("TypeError")
               ELSE IF AllNaNPairs(rd) # {} THEN Fail("KeyError")
               ELSE Same("", df_plot_data(rd))

\* an output file name: its leading digits, the slug after the underscore
FileName(d1, d2, slug) == [digits |-> <<d1, d2>>, slug |-> slug]

\* chart 17 pasted from chart 16 with its file name left as it was
V3NamesPasted ==
    [k \in 1..17 |->
        IF k = 17 THEN FileName(1, 6, "nested_bars_variables_by_pillar_and_sector")
        ELSE FileName(k \div 10, k % 10, "chart")]

\* the file names of GenerateCharts.py, chart by chart (HTML and PNG alike)
V3Names ==
    << FileName(0, 1, "radar_macroeconomic"),
       FileName(0, 2, "heatmap_performance"),
       FileName(0, 3, "violin_plot_performance"),
       FileName(0, 4, "treemap_sustainability"),
       FileName(0, 5, "bubble_chart_sustainability_vs_age"),
       FileName(0, 6, "parallel_coordinates_sustainability_profiles"),
       FileName(0, 7, "sankey_diagram_sustainability_flows"),
       FileName(0, 8, "sunburst_performance_hierarchy"),
       FileName(0, 9, "correlation_matrix_sustainability_pillars"),
       FileName(1, 0, "diverging_bar_performance_vs_sector"),
       FileName(1, 1, "boxplot_performance_by_property_type"),
       FileName(1, 2, "density_plot_multinational_vs_national"),
       FileName(1, 3, "variable_importance_heatmap"),
       FileName(1, 4, "scatter_trend_income_vs_sustainability"),
       FileName(1, 5, "chord_alternative_macrosector_vs_pillar"),
       FileName(1, 6, "nested_bars_variables_by_pillar_and_sector"),
       FileName(1, 7, "nested_scatter_variables_by_pillar_and_sector") >>

\* the charts of GenerateCharts.py
V3Charts == 1..Len(V3Names)

(***************************************************************************)
(* Dashboradv2/index.py: the 15 generate_chart_NN functions.               *)
(***************************************************************************)
\* GroupBy.nunique of one group: its distinct values, nulls not counted
NUnique(rows, cols, c) ==
    [key \in Keys(rows, cols) |->
        Cardinality({ x \in Values(Group(rows, key), c) : x.k # "nan" })]

\* how many groups head(10) keeps in charts 9 and 10
HeadCount == 10

\* sort_values(...).head(n) on a keyed aggregate of numbers: the n entries
\* that come first in the order Before (all of them when there are fewer)
HeadN(agg, n, Before(_, _)) ==
    IF Cardinality(DOMAIN agg) <= n THEN agg
    ELSE LET top == CHOOSE T \in SUBSET DOMAIN agg :
                        /\ Cardinality(T) = n
                        /\ \A t \in T, u \in DOMAIN agg \ T : Before(agg[t], agg[u])
         IN  [key \in top |-> agg[key]]

\* chart 5, lines 142-148: the copy of df whose income column is coerced,
\* nulls filled with 0 (line 148 fills through the column selection, which
\* writes into df_chart where pandas runs without copy-on-write)
IncomeCoerced(d) ==
    [d EXCEPT
        !.rows = [i \in 1..Len(d.rows) |->
                    [d.rows[i] EXCEPT !.IngresosOperacionales = fillna0(to_numeric(@))]],
        !.object = @ \ {"IngresosOperacionales"}]

\* chart 5, lines 150-157
plot_data(d) ==
    LET rows == IncomeCoerced(d).rows
        company_performance ==
            { [ RazonSocial |-> key.RazonSocial,
                total_performance |-> SumAgg(Column(Group(rows, key), Score)),
                income |-> First(Column(Group(rows, key), "IngresosOperacionales")),
                macrosector |-> First(Column(Group(rows, key), "Macrosector")) ] :
              key \in Keys(rows, {"RazonSocial"}) }
    IN  { r \in company_performance : Positive(r.income) }

\* chart 11, lines 233-239: per company the founding year of its first row
\* that has a numeric year
unique_companies(d) ==
    LET valid == Where(d.rows, LAMBDA r : to_numeric(r.AnoFundacion).k # "nan")
    IN  [key \in Keys(valid, {"RazonSocial"}) |->
            to_numeric(Group(valid, key)[1].AnoFundacion)]

\* chart 13, line 263: astype(str).str.replace('%', '') on one cell
StripPercent(cell) ==
    IF cell.k = "pct" THEN NumStr(cell.v)
    ELSE IF cell.k = "num" THEN NumStr(cell.v)
    ELSE IF cell.k = "nan" THEN Str("nan")
    ELSE cell

\* chart 13, lines 260-270: per pillar the mean assessment and the mean
\* materiality weight, both coerced on a copy, nulls counted as 0
heatmap_data(d) ==
    LET rows == [i \in 1..Len(d.rows) |->
                    [d.rows[i] EXCEPT
                        !.PonderacionMaterialidad = fillna0(to_numeric(StripPercent(@))),
                        !.Valoracion = fillna0(to_numeric(@))]]
    IN  [key \in Keys(rows, {"NombrePilar"}) |->
            [ mean_performance |-> MeanAgg(Column(Group(rows, key), "Valoracion")),
              mean_materiality |->
                  MeanAgg(Column(Group(rows, key), "PonderacionMaterialidad")) ]]

\* a > b on two means
FracGt(a, b) == FracGeq(a, b) /\ a # b

\* sort_values() in ascending order
MeanBeforeAscending(a, b) ==
    IF a.mean = FracNaN THEN b.mean = FracNaN /\ StrLt(a.key, b.key)
    ELSE \/ b.mean = FracNaN
         \/ FracGt(b.mean, a.mean)
         \/ a.mean = b.mean /\ StrLt(a.key, b.key)

\* charts 2 and 14: row a comes before row b after
\* sort_values(ascending=False): the larger mean first, a null mean last,
\* equal means in the order of their groups
MeanBefore(a, b) ==
    IF a.mean = FracNaN THEN b.mean = FracNaN /\ StrLt(a.key, b.key)
    ELSE \/ b.mean = FracNaN
         \/ FracGt(a.mean, b.mean)
         \/ a.mean = b.mean /\ StrLt(a.key, b.key)

\* charts 2 and 14, lines 109 and 289:
\* df.groupby(c)[score].mean().sort_values(ascending=False).reset_index()
SortedMeans(rows, c) ==
    LET agg == GroupMean(rows, {c}, Score)
        table == { [key |-> q[c], mean |-> agg[q]] : q \in DOMAIN agg }
    IN  [i \in 1..Cardinality(table) |->
            CHOOSE x \in table : Cardinality({ y \in table : MeanBefore(y, x) }) = i - 1]

\* the columns a generate_chart_NN function looks up in df by name
V2Reads(k) ==
    CASE k = 1 -> {"Macrosector", "NombrePilar", Score}
      [] k = 2 -> {"NombrePilar", Score}
      [] k = 3 -> {"Macrosector", "RazonSocial"}
      [] k = 4 -> {"NombrePilar", Score}
      [] k = 5 -> {"IngresosOperacionales", "RazonSocial", Score, "Macrosector"}
      [] k = 6 -> {"Multinacional", Score}
      [] k = 7 -> {"CotizaBolsa", Score}
      [] k = 8 -> {"Bloque", "NombrePilar", Score}
      [] k = 9 -> {"RazonSocial", Score}
      [] k = 10 -> {"RazonSocial", Score}
      [] k = 11 -> {"AnoFundacion", "RazonSocial"}
      [] k = 12 -> {"TipoPropiedad", "RazonSocial"}
      [] k = 13 -> {"PonderacionMaterialidad", "Valoracion", "NombrePilar"}
      [] k = 14 -> {"Macrosector", Score}
      [] OTHER -> {"EmpresaFamiliar", Score}

\* the charts of index.py that take the mean of the score column
V2MeanCharts == {1, 2, 6, 7, 8, 14, 15}

\* the table a generate_chart_NN function hands to the renderer
V2Data(k, d) ==
    CASE k = 1 -> GroupMean(d.rows, {"Macrosector", "NombrePilar"}, Score)
      [] k = 2 -> SortedMeans(d.rows, "NombrePilar")
      [] k = 3 -> NUnique(d.rows, {"Macrosector"}, "RazonSocial")
      [] k = 4 -> [i \in 1..Len(d.rows) |->
                      [ NombrePilar |-> d.rows[i].NombrePilar,
                        valoracionPonderada |-> d.rows[i].valoracionPonderada ]]
      [] k = 5 -> plot_data(d)
      [] k = 6 -> GroupMean(d.rows, {"Multinacional"}, Score)
      [] k = 7 -> GroupMean(d.rows, {"CotizaBolsa"}, Score)
      [] k = 8 -> GroupMean(d.rows, {"Bloque", "NombrePilar"}, Score)
      [] k = 9 -> HeadN(GroupSum(d.rows, {"RazonSocial"}, Score), HeadCount,
                        LAMBDA a, b : a.v >= b.v)
      [] k = 10 -> HeadN(GroupSum(d.rows, {"RazonSocial"}, Score), HeadCount,
                         LAMBDA a, b : a.v <= b.v)
      [] k = 11 -> unique_companies(d)
      [] k = 12 -> NUnique(d.rows, {"TipoPropiedad"}, "RazonSocial")
      [] k = 13 -> heatmap_data(d)
      [] k = 14 -> SortedMeans(d.rows, "Macrosector")
      [] OTHER -> GroupMean(d.rows, {"EmpresaFamiliar"}, Score)

\* chart 5 coercing the income column of df itself
CallerFrameInPlace(k, d) == IF k = 5 THEN IncomeCoerced(d) ELSE d

\* the DataFrame of the caller once generate_chart_NN(df) has returned: the
\* charts that coerce columns (5, 11, 13) do so on df.copy()
CallerFrame(k, d) == d

\* what one generate_chart_NN(df) call does: the exception it raises if any,
\* the table it hands to the renderer, and df as the call leaves it
V2Step(k, d) ==
    IF \E c \in V2Reads(k) : ~HasColumn(d, c)
    THEN [err |-> "KeyError", data |-> <<>>, df |-> d]
    ELSE IF k \in V2MeanCharts /\ Score \in d.object
    THEN [err |-> "TypeError", data |-> <<>>, df |-> d]
    ELSE [err |-> "", data |-> <<V2Data(k, d)>>, df |-> CallerFrame(k, d)]

\* generate_chart_15 pasted from generate_chart_14 with its file name left as
\* it was
V2NamesPasted ==
    << FileName(0, 1, "radar_macroeconomic"),
       FileName(0, 2, "bar_performance_by_pillar"),
       FileName(0, 3, "treemap_companies_by_sector"),
       FileName(0, 4, "box_performance_distribution"),
       FileName(0, 5, "scatter_income_vs_performance"),
       FileName(0, 6, "bar_multinational_comparison"),
       FileName(0, 7, "bar_listed_comparison"),
       FileName(0, 8, "sunburst_blocks_and_pillars"),
       FileName(0, 9, "bar_top10_companies"),
       FileName(1, 0, "bar_bottom10_companies"),
       FileName(1, 1, "histogram_foundation_year"),
       FileName(1, 2, "pie_property_type"),
       FileName(1, 3, "scatter_materiality_vs_performance"),
       FileName(1, 4, "bar_performance_by_macrosector"),
       FileName(1, 4, "bar_performance_by_macrosector") >>

\* the file names of index.py, chart by chart
V2Names ==
    << FileName(0, 1, "radar_macroeconomic"),
       FileName(0, 2, "bar_performance_by_pillar"),
       FileName(0, 3, "treemap_companies_by_sector"),
       FileName(0, 4, "box_performance_distribution"),
       FileName(0, 5, "scatter_income_vs_performance"),
       FileName(0, 6, "bar_multinational_comparison"),
       FileName(0, 7, "bar_listed_comparison"),
       FileName(0, 8, "sunburst_blocks_and_pillars"),
       FileName(0, 9, "bar_top10_companies"),
       FileName(1, 0, "bar_bottom10_companies"),
       FileName(1, 1, "histogram_foundation_year"),
       FileName(1, 2, "pie_property_type"),
       FileName(1, 3, "scatter_materiality_vs_performance"),
       FileName(1, 4, "bar_performance_by_macrosector"),
       FileName(1, 5, "bar_family_business_comparison") >>

\* the charts of index.py
V2Charts == 1..Len(V2Names)

(***************************************************************************)
(* The brand configuration file eafitBrand.json.                           *)
(***************************************************************************)
\* the keys of the brand document the scripts look up
BrandKeys ==
    { "colorPalette.chartColors", "colorPalette.text.primary",
      "colorPalette.background.main", "colorPalette.background.highlight",
      "typography.defaultFontFamily", "typography.styles.title.fontFamily",
      "typography.styles.heading2.fontFamily" }

\* lines 21-39 of GenerateCharts.py
V3BrandKeys == BrandKeys \ {"typography.styles.heading2.fontFamily"}

\* lines 33-47 of index.py
V2BrandKeys == BrandKeys \ {"typography.styles.title.fontFamily"}

\* the brand files a run may meet: none, one that is not JSON, and JSON
\* documents with all keys or with one key missing
BrandFiles ==
    { [exists |-> FALSE, json |-> FALSE, keys |-> {}],
      [exists |-> TRUE, json |-> FALSE, keys |-> {}] }
    \cup { [exists |-> TRUE, json |-> TRUE, keys |-> BrandKeys \ missing] :
             missing \in { {}, {"colorPalette.chartColors"},
                           {"typography.styles.title.fontFamily"},
                           {"typography.styles.heading2.fontFamily"} } }

\* key lookups that fall back to a default instead of raising
BrandErrorNoKeyCheck(file, needed) ==
    IF ~file.exists THEN "FileNotFoundError"
    ELSE IF ~file.json THEN "JSONDecodeError"
    ELSE ""

\* open + json.load + the key lookups that build the template: the exception
\* raised, if any
BrandError(file, needed) ==
    IF ~file.exists THEN "FileNotFoundError"
    ELSE IF ~file.json THEN "JSONDecodeError"
    ELSE IF ~(needed \subseteq file.keys) THEN "KeyError"
    ELSE ""

(***************************************************************************)
(* GenerateCharts.py, wrap_text (lines 82-106).  A text is a sequence of   *)
(* characters; the four characters '<br>' in a row count as one of them.   *)
(***************************************************************************)
\* the characters of a text: a letter, a blank, and the run '<br>'
Chars == {"a", " ", "<br>"}

\* the texts of at most n characters
Texts(n) == SeqsUpTo(Chars, n)

RECURSIVE TextLen(_)
\* len(text)
TextLen(text) ==
    IF text = <<>> THEN 0
    ELSE (IF Head(text) = "<br>" THEN 4 ELSE 1) + TextLen(Tail(text))

RECURSIVE Split(_, _, _)
\* the pieces of text between the occurrences of sep, after the piece begun
\* in word; the empty pieces are left out
Split(text, sep, word) ==
    IF text = <<>> THEN (IF word = <<>> THEN <<>> ELSE <<word>>)
    ELSE IF Head(text) = sep
    THEN (IF word = <<>> THEN <<>> ELSE <<word>>) \o Split(Tail(text), sep, <<>>)
    ELSE Split(Tail(text), sep, Append(word, Head(text)))

\* text.split(): the words of a text
Words(text) == Split(text, " ", <<>>)

RECURSIVE Join(_, _)
\* sep.join(parts)
Join(parts, sep) ==
    IF parts = <<>> THEN <<>>
    ELSE IF Len(parts) = 1 THEN parts[1]
    ELSE parts[1] \o <<sep>> \o Join(Tail(parts), sep)

\* a test that forgets the blanks between the words of the line
ExceedsWithoutBlanks(current_length, word_length, n, max_length) ==
    current_length + word_length > max_length

\* line 95: current_length + len(word) + len(current_line) > max_length
Exceeds(current_length, word_length, n, max_length) ==
    current_length + word_length + n > max_length

\* a return that forgets the line in progress
NoFlush(lines, current_line) == lines

\* lines 103-104: the line in progress is appended when it is not empty
Flush(lines, current_line) ==
    IF current_line # <<>> THEN Append(lines, Join(current_line, " ")) ELSE lines

RECURSIVE Pack(_, _, _, _, _, _)
\* lines 94-104: the loop over words from the i-th on, then the last line
Pack(words, i, lines, current_line, current_length, max_length) ==
    IF i > Len(words) THEN Flush(lines, current_line)
    ELSE IF /\ Exceeds(current_length, TextLen(words[i]), Len(current_line), max_length)
            /\ current_line # <<>>
    THEN Pack(words, i + 1, Append(lines, Join(current_line, " ")),
              << words[i] >>, TextLen(words[i]), max_length)
    ELSE Pack(words, i + 1, lines, Append(current_line, words[i]),
              current_length + TextLen(words[i]), max_length)

\* lines 89-104: the list lines at the return of a text longer than
\* max_length
WrapLines(text, max_length) == Pack(Words(text), 1, <<>>, <<>>, 0, max_length)

\* wrap_text(text, max_length)
wrap_text(text, max_length) ==
    IF TextLen(text) <= max_length THEN text
    ELSE Join(WrapLines(text, max_length), "<br>")

(***************************************************************************)
(* One run of one script.                                                  *)
(***************************************************************************)
VARIABLES
    script,              \* "v3": GenerateCharts.py, "v2": index.py
    csvFile,             \* empresasEafit.csv as the run finds it
    brandFile,           \* eafitBrand.json as the run finds it
    dirs,                \* the output directories that exist
    files,               \* the output files written so far: path -> content
    stdout,              \* the lines printed so far
    template,            \* pio.templates.default
    pc,                  \* where the run is
    done,                \* the charts that ran to their end
    err,                 \* the exception that ended the run, "" if none
    raw_data,            \* GenerateCharts.py: the module-level table
    company_agg_data,    \* GenerateCharts.py: bound by chart 4
    parallel_coords_df,  \* GenerateCharts.py: bound by chart 6 (with dimensions)
    df,                  \* index.py: main's df
    brand_config,        \* index.py: main's brand_config is not None
    outOfOrder,          \* the charts started before a chart whose effects they
                         \* read or that reads theirs had run: 0 in both scripts
    wrapText,            \* wrap_text: its argument text
    wrapWidth,           \* wrap_text: its argument max_length
    packed,              \* wrap_text: its list lines at the return
    wrapped              \* wrap_text: what it returned

vars ==
    << script, csvFile, brandFile, dirs, files, stdout, template, pc, done, err,
       raw_data, company_agg_data, parallel_coords_df, df, brand_config,
       outOfOrder, wrapText, wrapWidth, packed, wrapped >>

\* the call of wrap_text, which no step of a run of a script touches
wrap == << wrapText, wrapWidth, packed, wrapped >>

inputs == << script, csvFile, brandFile, wrap >>

\* no call of wrap_text is followed
NoWrap == wrapText = <<>> /\ wrapWidth = 0 /\ packed = <<>> /\ wrapped = <<>>

\* a path in an output directory
Path(dir, name, ext) == [dir |-> dir, name |-> name, ext |-> ext]

\* the file system after path has been written with content
Write(fs, path, content) ==
    [p \in DOMAIN fs \cup {path} |-> IF p = path THEN content ELSE fs[p]]

\* a message on standard output
Line(text, arg) == [text |-> text, arg |-> arg]

\* the faults of the environment a chart procedure may meet: none, an
\* exception of the charting library while rendering, a failed HTML write, a
\* failed PNG export
Faults == {"none", "render", "html", "png"}

Init ==
    /\ script \in {"v3", "v2"}
    /\ csvFile \in CsvFiles \cup {NoFile}
    /\ brandFile \in BrandFiles
    /\ dirs \in SUBSET {"charts", "img"}
    /\ files = <<>>
    /\ stdout = <<>>
    /\ template = "plotly"
    /\ pc = IF script = "v3" THEN "brand" ELSE "setup"
    /\ done = {}
    /\ err = ""
    /\ raw_data = None
    /\ company_agg_data = Unbound
    /\ parallel_coords_df = Unbound
    /\ df = None
    /\ brand_config = FALSE
    /\ outOfOrder = 0
    /\ NoWrap

\* an exception that is recorded while the run goes on
RaiseSwallowed(e) == pc' = pc /\ err' = e

\* an unhandled exception ends the process
Raise(e) == pc' = "raised" /\ err' = e

\* GenerateCharts.py lines 17-58: the brand file is read and the template
\* built from it is made the default
V3Brand ==
    /\ script = "v3" /\ pc = "brand"
    /\ IF BrandError(brandFile, V3BrandKeys) # ""
       THEN Raise(BrandError(brandFile, V3BrandKeys)) /\ UNCHANGED template
       ELSE pc' = "load" /\ template' = "eafit_brand_template" /\ UNCHANGED err
    /\ UNCHANGED << outOfOrder, inputs, dirs, files, stdout, done, raw_data, company_agg_data,
                    parallel_coords_df, df, brand_config >>

\* GenerateCharts.py lines 64-66: the CSV is read, its labels stripped, the
\* sentinel sectors filtered out
V3Load ==
    /\ script = "v3" /\ pc = "load"
    /\ IF LoadRawData(csvFile).err # ""
       THEN Raise(LoadRawData(csvFile).err) /\ UNCHANGED raw_data
       ELSE pc' = "charts" /\ raw_data' = LoadRawData(csvFile).table /\ UNCHANGED err
    /\ UNCHANGED << outOfOrder, inputs, dirs, files, stdout, template, done, company_agg_data,
                    parallel_coords_df, df, brand_config >>

\* GenerateCharts.py, save_chart_as_html (lines 72-80) then fig.write_image:
\* the directory 'charts' is created when absent, the HTML is written, then
\* the PNG is written into 'img', which nothing creates
V3Write(k, data, fault) ==
    LET html == Path("charts", V3Names[k], "html")
        png == Path("img", V3Names[k], "png")
    IN  IF fault = "html"
        THEN /\ Raise("OSError")
             /\ dirs' = dirs \cup {"charts"}
             /\ UNCHANGED << files, done >>
        ELSE IF "img" \notin dirs \/ fault = "png"
        THEN /\ Raise(IF "img" \notin dirs THEN "FileNotFoundError" ELSE "ValueError")
             /\ dirs' = dirs \cup {"charts"}
             /\ files' = Write(files, html, data)
             /\ UNCHANGED done
        ELSE /\ dirs' = dirs \cup {"charts"}
             /\ files' = Write(Write(files, html, data), png, data)
             /\ done' = done \cup {k}
             /\ pc' = IF done' = V3Charts THEN "done" ELSE "charts"
             /\ UNCHANGED err

\* one chart procedure of GenerateCharts.py, from its first statement to its
\* write_image
V3Run(k, fault) ==
    \E step \in { V3Step(k, raw_data, company_agg_data, parallel_coords_df) } :
        /\ raw_data' = step.rd
        /\ company_agg_data' = step.cad
        /\ parallel_coords_df' = step.pcd
        /\ IF step.err # ""
           THEN Raise(step.err) /\ UNCHANGED << dirs, files, done >>
           ELSE IF fault = "render"
           THEN Raise("ValueError") /\ UNCHANGED << dirs, files, done >>
           ELSE V3Write(k, step.data, fault)
        /\ UNCHANGED << inputs, stdout, template, df, brand_config >>

\* the chart the sequential script runs next
NextChart == Cardinality(done) + 1

\* GenerateCharts.py lines 112-642: the charts run in source order
V3Chart ==
    /\ script = "v3" /\ pc = "charts"
    /\ \E fault \in Faults : V3Run(NextChart, fault)
    /\ UNCHANGED outOfOrder

\* an except clause around the CSV read alone
MissingInputCsvOnly(csv, brand) == IF ~csv.exists THEN "empresasEafit.csv" ELSE ""

\* index.py lines 20-30: the input file whose absence the except clause of
\* setup_environment catches, "" when both are there (the CSV is opened first)
MissingInput(csv, brand) ==
    IF ~csv.exists THEN "empresasEafit.csv"
    ELSE IF ~brand.exists THEN "eafitBrand.json"
    ELSE ""

\* index.py lines 10-57, setup_environment: 'charts' is created when absent;
\* a missing CSV or brand file is reported by name and (None, None) is
\* returned; otherwise the template is built, registered and made the default
V2Setup ==
    /\ script = "v2" /\ pc = "setup"
    /\ dirs' = dirs \cup {"charts"}
    /\ LET created == IF "charts" \in dirs THEN <<>>
                      ELSE << Line("Directorio 'charts/' creado.", "") >>
           missing == MissingInput(csvFile, brandFile)
       IN  IF missing # ""
           THEN /\ stdout' = created \o << Line("Error: No se encontro el archivo", missing) >>
                /\ df' = None /\ brand_config' = FALSE
                /\ pc' = "main"
                /\ UNCHANGED << template, err >>
           ELSE IF BrandError(brandFile, V2BrandKeys) # ""
           THEN /\ Raise(BrandError(brandFile, V2BrandKeys))
                /\ stdout' = created
                /\ UNCHANGED << template, df, brand_config >>
           ELSE /\ template' = "eafit_brand"
                /\ stdout' = created \o << Line("Entorno configurado exitosamente.", "") >>
                /\ df' = read_csv(csvFile) /\ brand_config' = TRUE
                /\ pc' = "main"
                /\ UNCHANGED err
    /\ UNCHANGED << outOfOrder, inputs, files, done, raw_data, company_agg_data, parallel_coords_df >>

\* index.py lines 318-321, main: the charts are generated only when both
\* values setup_environment returned are not None
V2Main ==
    /\ script = "v2" /\ pc = "main"
    /\ IF ~df.none /\ brand_config
       THEN /\ stdout' = Append(stdout, Line("--- Iniciando generacion de graficos ---", ""))
            /\ pc' = "charts"
       ELSE /\ pc' = "done"
            /\ UNCHANGED stdout
    /\ UNCHANGED << outOfOrder, inputs, dirs, files, template, done, err, raw_data, company_agg_data,
                    parallel_coords_df, df, brand_config >>

\* index.py, save_chart_as_html (lines 59-87): the HTML is written into
\* 'charts' and the path is printed; no image is written
V2Write(k, data, fault) ==
    LET html == Path("charts", V2Names[k], "html")
    IN  IF "charts" \notin dirs \/ fault \in {"html", "png"}
        THEN /\ Raise(IF "charts" \notin dirs THEN "FileNotFoundError" ELSE "OSError")
             /\ UNCHANGED << files, stdout, done >>
        ELSE /\ files' = Write(files, html, data)
             /\ stdout' = Append(stdout, Line("Grafico guardado en:", V2Names[k].slug))
             /\ done' = done \cup {k}
             /\ pc' = IF done' = V2Charts THEN "summary" ELSE "charts"
             /\ UNCHANGED err

\* one generate_chart_NN(df) call of main
V2Run(k, fault) ==
    \E step \in { V2Step(k, df) } :
        /\ df' = step.df
        /\ IF step.err # ""
           THEN Raise(step.err) /\ UNCHANGED << files, stdout, done >>
           ELSE IF fault = "render"
           THEN Raise("ValueError") /\ UNCHANGED << files, stdout, done >>
           ELSE V2Write(k, step.data, fault)
        /\ UNCHANGED << inputs, dirs, template, raw_data, company_agg_data,
                        parallel_coords_df, brand_config >>

\* index.py lines 322-336: the 15 calls in source order
V2Chart ==
    /\ script = "v2" /\ pc = "charts"
    /\ \E fault \in Faults \ {"png"} : V2Run(NextChart, fault)
    /\ UNCHANGED outOfOrder

\* index.py lines 337-338: the completion summary
V2Summary ==
    /\ script = "v2" /\ pc = "summary"
    /\ stdout' = stdout \o << Line("--- Proceso de generacion de graficos completado. ---", ""),
                              Line("Se han creado 15 archivos .html en la carpeta", "charts") >>
    /\ pc' = "done"
    /\ UNCHANGED << outOfOrder, inputs, dirs, files, template, done, err, raw_data, company_agg_data,
                    parallel_coords_df, df, brand_config >>

Next == V3Brand \/ V3Load \/ V3Chart \/ V2Setup \/ V2Main \/ V2Chart \/ V2Summary

Spec == Init /\ [][Next]_vars

(***************************************************************************)
(* The chart procedures run in an order other than the source's: the       *)
(* blocks of GenerateCharts.py rearranged, the calls of main rearranged.   *)
(***************************************************************************)
\* the charts of GenerateCharts.py whose effects chart k reads, or that read
\* what chart k overwrites: charts 1-3 read the score column chart 4 replaces
\* (lines 222-223); every later chart reads the replaced columns or
\* company_agg_data (line 224); chart 9 reads parallel_coords_df and
\* dimensions of chart 6 (lines 379-395)
Pred(k) ==
    IF k <= 3 THEN {}
    ELSE IF k = 4 THEN {1, 2, 3}
    ELSE IF k = 9 THEN {4, 6}
    ELSE {4}

\* the CSV files of the rearranged runs: an exact header over numeric
\* scores, with an empty score, income and year, a non-numeric income, and
\* a sentinel sector among them
OrderCsvs ==
    { [exists |-> TRUE, labels |-> [c \in ColIds |-> Label(c, 0, 0)], rows |-> rs] :
        rs \in { << PoolRows[1], PoolRows[2] >>,
                 << PoolRows[1], PoolRows[3] >>,
                 << PoolRows[4], PoolRows[5] >> } }

\* a brand file with every key
GoodBrand == [exists |-> TRUE, json |-> TRUE, keys |-> BrandKeys]

RECURSIVE SourceOrder(_, _, _, _, _)
\* GenerateCharts.py lines 112-642 as written: what charts k..17 hand to
\* their writes, after out
SourceOrder(k, rd, cad, pcd, out) ==
    IF k > 17 THEN out
    ELSE LET step == V3Step(k, rd, cad, pcd)
         IN  IF step.err # "" THEN out
             ELSE SourceOrder(k + 1, step.rd, step.cad, step.pcd, Append(out, step.data))

\* GenerateCharts.py after the brand and the loader, both output directories
\* in place
InitV3Order ==
    /\ script = "v3"
    /\ csvFile \in OrderCsvs
    /\ brandFile = GoodBrand
    /\ dirs = {"charts", "img"}
    /\ files = <<>>
    /\ stdout = <<>>
    /\ template = "eafit_brand_template"
    /\ pc = "charts"
    /\ done = {}
    /\ err = ""
    /\ raw_data = LoadRawData(csvFile).table
    /\ company_agg_data = Unbound
    /\ parallel_coords_df = Unbound
    /\ df = None
    /\ brand_config = FALSE
    /\ outOfOrder = 0
    /\ NoWrap

\* the next block of the source among those not run yet
NextInSource == CHOOSE k \in V3Charts \ done : \A j \in V3Charts \ done : k <= j

\* a chart block placed after every block of Pred: any such block while
\* every block so far was, the next block of the source otherwise
V3InOrder ==
    /\ script = "v3" /\ pc = "charts"
    /\ \E k \in V3Charts \ done :
          /\ Pred(k) \subseteq done
          /\ outOfOrder = 0 \/ k = NextInSource
          /\ V3Run(k, "none")
    /\ UNCHANGED outOfOrder

\* a chart block placed before a block of Pred
V3OutOfOrder ==
    /\ script = "v3" /\ pc = "charts"
    /\ outOfOrder < MaxOutOfOrder
    /\ \E k \in V3Charts \ done :
          /\ ~(Pred(k) \subseteq done)
          /\ V3Run(k, "none")
    /\ outOfOrder' = outOfOrder + 1

NextV3Order == V3InOrder \/ V3OutOfOrder

SpecV3Order == InitV3Order /\ [][NextV3Order]_vars

\* index.py once main has entered its block of calls (line 321)
InitV2Order ==
    /\ script = "v2"
    /\ csvFile \in OrderCsvs
    /\ brandFile = GoodBrand
    /\ dirs = {"charts"}
    /\ files = <<>>
    /\ stdout = << Line("Entorno configurado exitosamente.", ""),
                   Line("--- Iniciando generacion de graficos ---", "") >>
    /\ template = "eafit_brand"
    /\ pc = "charts"
    /\ done = {}
    /\ err = ""
    /\ raw_data = None
    /\ company_agg_data = Unbound
    /\ parallel_coords_df = Unbound
    /\ df = read_csv(csvFile)
    /\ brand_config = TRUE
    /\ outOfOrder = 0
    /\ NoWrap

\* any generate_chart_NN(df) not called yet, MaxCalls calls at most
V2AnyChart ==
    /\ script = "v2" /\ pc = "charts"
    /\ Cardinality(done) < MaxCalls
    /\ \E k \in V2Charts \ done : V2Run(k, "none")
    /\ UNCHANGED outOfOrder

NextV2Order == V2AnyChart

SpecV2Order == InitV2Order /\ [][NextV2Order]_vars

(***************************************************************************)
(* wrap_text called on its own.                                            *)
(***************************************************************************)
\* a call of wrap_text with any text and any positive max_length
InitWrap ==
    /\ script = "v3"
    /\ csvFile = NoFile
    /\ brandFile = GoodBrand
    /\ dirs = {}
    /\ files = <<>>
    /\ stdout = <<>>
    /\ template = "plotly"
    /\ pc = "wrap_text"
    /\ done = {}
    /\ err = ""
    /\ raw_data = None
    /\ company_agg_data = Unbound
    /\ parallel_coords_df = Unbound
    /\ df = None
    /\ brand_config = FALSE
    /\ outOfOrder = 0
    /\ wrapText \in Texts(MaxText)
    /\ wrapWidth \in 1..MaxWidth
    /\ packed = <<>>
    /\ wrapped = <<>>

\* lines 82-106: the call runs to its return
CallWrapText ==
    /\ pc = "wrap_text"
    /\ pc' = "returned"
    /\ packed' = IF TextLen(wrapText) <= wrapWidth THEN <<>>
                 ELSE WrapLines(wrapText, wrapWidth)
    /\ wrapped' = wrap_text(wrapText, wrapWidth)
    /\ UNCHANGED << script, csvFile, brandFile, wrapText, wrapWidth, dirs, files,
                    stdout, template, done, err, raw_data, company_agg_data,
                    parallel_coords_df, df, brand_config, outOfOrder >>

NextWrap == CallWrapText

SpecWrap == InitWrap /\ [][NextWrap]_vars

(***************************************************************************)
(* Properties.                                                             *)
(***************************************************************************)
\* GenerateCharts.py is past its loader (lines 64-66)
V3Loaded == script = "v3" /\ template = "eafit_brand_template" /\ pc # "load"

\* the cells that hold one of the texts '0', 'No', 'No informa', 'SI', 'Si'
SentinelCells == { NumStr(0), Str("No"), Str("No informa"), Str("SI"), Str("Si") }

\* the rows whose sector is no sentinel, in their order
KeptRows(rows) ==
    LET kept == { i \in 1..Len(rows) : rows[i].Macrosector \notin SentinelCells }
    IN  [j \in 1..Cardinality(kept) |->
            rows[CHOOSE i \in kept : Cardinality({ x \in kept : x <= i }) = j]]

\* the columns chart 4 and chart 5 of GenerateCharts.py assign to
CoercedCols == {"valoracionPonderada", "IngresosOperacionales", "AnoFundacion"}

\* C4: once GenerateCharts.py has loaded a CSV that exists, the loader has not
\* raised (the labels were stripped before 'Macrosector' was looked up), every
\* label of raw_data is stripped, no row of raw_data has a sentinel
\* Macrosector, and the rows of raw_data are the other rows of the CSV, all
\* of them and in the CSV's order (cell for cell until the first chart runs)
C4_LoaderExcludesSentinels ==
    (V3Loaded /\ csvFile.exists) =>
        LET kept == KeptRows(read_csv(csvFile).rows)
        IN  /\ ~raw_data.none
            /\ \A c \in ColIds : raw_data.labels[c].lead = 0 /\ raw_data.labels[c].trail = 0
            /\ \A i \in 1..Len(raw_data.rows) :
                  raw_data.rows[i].Macrosector \notin SentinelCells
            /\ Len(raw_data.rows) = Len(kept)
            /\ \A j \in 1..Len(raw_data.rows) :
                  \A c \in ColIds \ CoercedCols : raw_data.rows[j][c] = kept[j][c]
            /\ (done = {} /\ pc = "charts") => raw_data.rows = kept

\* C4 witness: a CSV with padded labels, a sentinel row and another row has
\* been loaded
C4_Witness ==
    /\ V3Loaded /\ pc = "charts" /\ done = {}
    /\ csvFile.exists /\ csvFile.labels["Macrosector"].lead > 0
    /\ Len(csvFile.rows) = 2 /\ Len(raw_data.rows) = 1

\* index.py is past setup_environment with a table
V2Loaded == script = "v2" /\ ~df.none /\ pc # "setup"

\* C5 (as claimed): the table setup_environment of index.py returns has
\* stripped labels and no row with a sentinel Macrosector
C5_V2LoaderExcludesSentinels ==
    V2Loaded =>
        /\ \A c \in ColIds : df.labels[c].lead = 0 /\ df.labels[c].trail = 0
        /\ \A i \in 1..Len(df.rows) : df.rows[i].Macrosector \notin SentinelCells

\* the numeric coercion of a cell as loaded, nulls as 0
CoercedZero(cell) ==
    IF cell.k \in {"num", "numstr"} THEN Num(cell.v) ELSE Num(0)

C6_NonNumericScoreNeverRaises ==
    (csvFile.exists /\ \E i \in 1..Len(csvFile.rows) :
                          csvFile.rows[i].valoracionPonderada.k = "str")
        => err # "TypeError"

\* the charts and file names of the script of this run
Charts == IF script = "v3" THEN V3Charts ELSE V2Charts
Names == IF script = "v3" THEN V3Names ELSE V2Names

\* the charts whose source text names the file of this path
WritersOf(path) == { k \in Charts : Names[k] = path.name }

\* the run printed its completion summary
SummaryPrinted ==
    \E i \in 1..Len(stdout) :
        stdout[i].text = "--- Proceso de generacion de graficos completado. ---"

\* C7: the charts that have run are always the first ones in index order;
\* every file written is of a chart that ran to its end or, once an
\* exception was raised, of the chart that raised it; every chart that ran to
\* its end still has its HTML (and, in GenerateCharts.py, its PNG); index.py
\* prints its summary only with all 15 HTML files written; and no step at
\* all is taken once an exception was raised
C7_FailureHaltsRun ==
    /\ [](/\ done = 1..Cardinality(done)
          /\ \A path \in DOMAIN files :
                \A k \in WritersOf(path) :
                    \/ k \in done
                    \/ pc = "raised" /\ k = Cardinality(done) + 1
          /\ \A k \in done :
                /\ Path("charts", Names[k], "html") \in DOMAIN files
                /\ script = "v3" => Path("img", Names[k], "png") \in DOMAIN files
          /\ SummaryPrinted =>
                /\ script = "v2" /\ done = V2Charts
                /\ \A k \in V2Charts : Path("charts", V2Names[k], "html") \in DOMAIN files)
    /\ [][err = "" /\ pc # "raised"]_vars

\* C7 witness: chart 3 of GenerateCharts.py raised after its HTML was
\* written: the files of charts 1 and 2 and that HTML are there, nothing else
C7_Witness ==
    /\ script = "v3" /\ pc = "raised" /\ done = {1, 2}
    /\ Path("charts", V3Names[3], "html") \in DOMAIN files
    /\ Cardinality(DOMAIN files) = 5

\* C8: when index.py finds the CSV or the brand file missing, then from the
\* return of setup_environment on: the missing file (the CSV when both are
\* missing) was reported by name in the last line printed, nothing was
\* raised, df and brand_config are None, no chart ran, no file was written
\* and the default template is still Plotly's
C8_MissingInputSkipsCharts ==
    (script = "v2" /\ (~csvFile.exists \/ ~brandFile.exists) /\ pc # "setup") =>
        /\ pc \in {"main", "done"} /\ err = ""
        /\ df.none /\ ~brand_config
        /\ done = {} /\ files = <<>>
        /\ template = "plotly"
        /\ Len(stdout) > 0
        /\ stdout[Len(stdout)] =
              Line("Error: No se encontro el archivo",
                   IF csvFile.exists THEN "eafitBrand.json" ELSE "empresasEafit.csv")

\* C8 witness: main has returned after a run that found the CSV but no brand
\* file
C8_Witness ==
    /\ script = "v2" /\ pc = "done" /\ csvFile.exists /\ ~brandFile.exists
    /\ Len(csvFile.rows) > 0

\* the brand file of this run is absent, is not JSON, or lacks a key the
\* script of this run looks up
BrandUnusable ==
    \/ ~brandFile.exists
    \/ ~brandFile.json
    \/ \E key \in (IF script = "v3" THEN V3BrandKeys ELSE V2BrandKeys) :
          key \notin brandFile.keys

\* C9: with an absent or malformed brand file neither script ever starts a
\* chart or writes an output file: GenerateCharts.py and index.py end by an
\* exception before the first chart, or index.py skips the charts
C9_BadBrandWritesNothing ==
    BrandUnusable =>
        /\ files = <<>> /\ done = {}
        /\ pc \in {"brand", "setup", "main", "raised", "done"}
        /\ template = "plotly"

\* C9 witness: index.py ended by the JSONDecodeError its except clause does
\* not catch
C9_Witness ==
    script = "v2" /\ pc = "raised" /\ err = "JSONDecodeError" /\ csvFile.exists

\* every chart of the script ran to its end
Completed == pc = "done" /\ done = Charts

\* the two decimal digits of a chart index
TwoDigits(k) == << k \div 10, k % 10 >>

\* the files of extension ext written so far whose name starts with the two
\* digits of k
FilesOf(k, ext) ==
    { path \in DOMAIN files : path.ext = ext /\ path.name.digits = TwoDigits(k) }

Reference ==
    [file \in OrderCsvs |->
        SourceOrder(1, LoadRawData(file).table, Unbound, Unbound, <<>>)]

\* chart k of GenerateCharts.py wrote content, in both of its files
Wrote(k, content) ==
    /\ Path("charts", V3Names[k], "html") \in DOMAIN files
    /\ Path("img", V3Names[k], "png") \in DOMAIN files
    /\ files[Path("charts", V3Names[k], "html")] = content
    /\ files[Path("img", V3Names[k], "png")] = content

\* every chart that ran wrote what it writes in the source order
SameAsReference ==
    LET ref == Reference[csvFile]
    IN  \A k \in done : k <= Len(ref) /\ Wrote(k, ref[k])

C3_ChartsLeaveDfAlone ==
    (script = "v2" /\ pc \in {"charts", "summary", "done"} /\ ~df.none)
        => /\ df = read_csv(csvFile)
           /\ \A k \in done :
                 /\ Path("charts", V2Names[k], "html") \in DOMAIN files
                 /\ files[Path("charts", V2Names[k], "html")]
                        = V2Step(k, read_csv(csvFile)).data

\* generate_chart_05, which coerces the income column, has been called on a
\* table with a non-numeric income, and charts after and before it in the
\* source order were called after it
C3_Witness ==
    /\ script = "v2" /\ Len(stdout) = 5
    /\ stdout[3].arg = V2Names[5].slug
    /\ stdout[4].arg = V2Names[11].slug
    /\ stdout[5].arg = V2Names[1].slug
    /\ \E i \in 1..Len(csvFile.rows) : csvFile.rows[i].IngresosOperacionales.k = "str"

(***************************************************************************)
(* C11, C12: the output directories and the output paths.                  *)
(***************************************************************************)
\* C11 (as claimed): with both input files in place, no write of either
\* script finds its directory missing: the run never ends by the
\* FileNotFoundError of an output write, whatever directories it started with
C11_OutputDirsCreatedOnDemand ==
    (csvFile.exists /\ brandFile.exists) => err # "FileNotFoundError"

\* C12: within one run the file names of the charts are pairwise distinct,
\* every file written is the file of exactly one chart, and a file once
\* written is never written again: it stays, with the content its chart
\* gave it
C12_DistinctOutputPaths ==
    /\ [](/\ \A j \in Charts : \A k \in Charts \ {j} : Names[j] # Names[k]
          /\ \A path \in DOMAIN files : Cardinality(WritersOf(path)) = 1)
    /\ [][\A path \in DOMAIN files :
             path \in DOMAIN files' /\ files'[path] = files[path]]_vars

\* C12 witness: GenerateCharts.py completed with its 34 files, those of
\* charts 16 and 17 among them
C12_Witness ==
    /\ script = "v3" /\ Completed /\ Cardinality(DOMAIN files) = 34
    /\ Path("charts", V3Names[16], "html") \in DOMAIN files
    /\ Path("charts", V3Names[17], "html") \in DOMAIN files

(***************************************************************************)
(* C13: the pivot matrices of GenerateCharts.py.                           *)
(***************************************************************************)
\* the values of column c that occur in rows, null aside
Categories(rows, c) == { rows[i][c] : i \in 1..Len(rows) } \ {NaN}

\* the rows of the pair (r, c) of the columns rc and cc, by index
PairRows(rows, rc, r, cc, c) ==
    { i \in 1..Len(rows) : rows[i][rc] = r /\ rows[i][cc] = c }

RECURSIVE ScoreTotal(_, _)
\* the scores of the rows of I added up, a row without a number adding nothing
ScoreTotal(rows, I) ==
    IF I = {} THEN 0
    ELSE LET i == CHOOSE x \in I : TRUE
         IN  (IF rows[i].valoracionPonderada.k = "num"
              THEN rows[i].valoracionPonderada.v ELSE 0) + ScoreTotal(rows, I \ {i})

\* the rows of I that have a number as score
Scored(rows, I) == { i \in I : rows[i].valoracionPonderada.k = "num" }

\* the matrix m has one row per value of rc and one column per value of cc
\* in rows, and Cell(I) in the cell of every pair, I being the rows of the
\* pair, Zero in the cell of a pair without rows
CompleteMatrix(m, rows, rc, cc, Cell(_), Zero) ==
    /\ m.index = Categories(rows, rc)
    /\ m.columns = Categories(rows, cc)
    /\ DOMAIN m.cell = m.index \X m.columns
    /\ \A pair \in m.index \X m.columns :
          LET I == PairRows(rows, rc, pair[1], cc, pair[2])
          IN  m.cell[pair] = IF I = {} THEN Zero ELSE Cell(I)

\* the content chart k of GenerateCharts.py wrote into its HTML file
Html(k) == files[Path("charts", V3Names[k], "html")][1]

\* C13: the matrices charts 2, 13 and 15 of GenerateCharts.py hand to their
\* heatmaps have one row per row category and one column per column
\* category of raw_data; the cell of a pair that has rows is the sum (charts
\* 2 and 15) or the mean (chart 13) of valoracionPonderada over the rows of
\* the pair, the cell of a pair without rows is 0
C13_PivotMatricesComplete ==
    script = "v3" =>
        /\ 2 \in done =>
              CompleteMatrix(Html(2), raw_data.rows, "RazonSocial", "NombrePilar",
                             LAMBDA I : Num(ScoreTotal(raw_data.rows, I)), Num(0))
        /\ 13 \in done =>
              CompleteMatrix(Html(13), raw_data.rows, "Variable", "Macrosector",
                             LAMBDA I : IF Scored(raw_data.rows, I) = {} THEN Frac(0, 1)
                                        ELSE Frac(ScoreTotal(raw_data.rows, I),
                                                  Cardinality(Scored(raw_data.rows, I))),
                             Frac(0, 1))
        /\ 15 \in done =>
              CompleteMatrix(Html(15), raw_data.rows, "Macrosector", "NombrePilar",
                             LAMBDA I : Num(ScoreTotal(raw_data.rows, I)), Num(0))

\* C13 witness: charts 2, 13 and 15 have run on a table with two sectors,
\* two pillars and a (sector, pillar) pair without rows
C13_Witness ==
    /\ script = "v3" /\ {2, 13, 15} \subseteq done
    /\ \E s \in Categories(raw_data.rows, "Macrosector") :
          \E p \in Categories(raw_data.rows, "NombrePilar") :
              /\ PairRows(raw_data.rows, "Macrosector", s, "NombrePilar", p) = {}
              /\ Html(15).cell[<<s, p>>] = Num(0)

(***************************************************************************)
(* C14: the nodes of the Sankey chart.                                     *)
(***************************************************************************)
\* the names that occur as source or target of a link
LinkNames(links) ==
    { links[i].source : i \in 1..Len(links) } \cup { links[i].target : i \in 1..Len(links) }

\* the place of the first appearance of name among the sources of the links
\* (in link order) followed by their targets
FirstAppearance(links, name) ==
    LET n == Len(links)
        at == { i \in 1..n : links[i].source = name }
                 \cup { n + i : i \in { j \in 1..n : links[j].target = name } }
    IN  CHOOSE i \in at : \A j \in at : i <= j

\* C14: in chart 7 of GenerateCharts.py every link has a positive value;
\* the node list holds each name that is a source or a target of a link
\* exactly once, and nothing else; the ids of the links are the indices
\* 0..n-1 of the node list, so that the label at source_id is the link's
\* source and the label at target_id its target (a pillar that is a target
\* and a source has one id); and the nodes are listed by first appearance,
\* the sources of all links being read before their targets
C14_SankeyNodesOnceInOrder ==
    (script = "v3" /\ 7 \in done) =>
        LET label == Html(7).label
            link == Html(7).link
        IN  /\ \A i \in 1..Len(link) : link[i].value.k = "num" /\ link[i].value.v > 0
            /\ { label[i] : i \in 1..Len(label) } = LinkNames(link)
            /\ \A i, j \in 1..Len(label) : label[i] = label[j] => i = j
            /\ \A i \in 1..Len(link) :
                  /\ link[i].source_id \in 0..(Len(label) - 1)
                  /\ link[i].target_id \in 0..(Len(label) - 1)
                  /\ label[link[i].source_id + 1] = link[i].source
                  /\ label[link[i].target_id + 1] = link[i].target
            /\ \A i, j \in 1..Len(label) :
                  i < j => FirstAppearance(link, label[i]) < FirstAppearance(link, label[j])

\* C14 witness: chart 7 has run on a table with two blocks of one pillar:
\* the two blocks are nodes 0 and 1, the pillar, target of both and source
\* of a sector link, is node 2
C14_Witness ==
    /\ script = "v3" /\ 7 \in done
    /\ Len(Html(7).link) >= 3 /\ Len(Html(7).label) >= 4
    /\ Html(7).link[1].source_id = 0 /\ Html(7).link[2].source_id = 1
    /\ Html(7).link[1].target_id = 2 /\ Html(7).link[2].target_id = 2
    /\ Html(7).link[3].source_id = 2

(***************************************************************************)
(* C15, C20: the companies of the income-versus-score scatters.            *)
(***************************************************************************)
\* the rows of a company, by index
CompanyRows(rows, company) == { i \in 1..Len(rows) : rows[i].RazonSocial = company }

\* the income of a row as pd.to_numeric(errors='coerce').fillna(0) leaves it
Income(row) == CoercedZero(row.IngresosOperacionales)

\* the points of chart 14 of GenerateCharts.py
V3Scatter ==
    { [company |-> r.RazonSocial, score |-> r.Puntaje_Total_Sostenibilidad,
       income |-> r.Ingresos_Operacionales] : r \in Html(14) }

\* the points of chart 5 of index.py
V2Scatter ==
    { [company |-> r.RazonSocial, score |-> r.total_performance, income |-> r.income] :
        r \in files[Path("charts", V2Names[5], "html")][1] }

\* the table the scatter of this run is drawn from
ScatterRows == IF script = "v3" THEN raw_data.rows ELSE df.rows

\* the scatter of this run has been drawn
ScatterDone == (script = "v3" /\ 14 \in done) \/ (script = "v2" /\ 5 \in done)

\* C15: in the log-scale scatter of either script every point has an income
\* > 0 and is the only point of its company, with the sum of the company's
\* scores; a company all of whose rows have a missing, non-numeric or zero
\* income has no point; a company all of whose rows have a positive income
\* has one
C15_ScatterPlotsPositiveIncomeOnly ==
    ScatterDone =>
        LET rows == ScatterRows
            plotted == IF script = "v3" THEN V3Scatter ELSE V2Scatter
            companies == Categories(rows, "RazonSocial")
        IN  /\ \A point \in plotted :
                  /\ point.income.k = "num" /\ point.income.v > 0
                  /\ point.company \in companies
                  /\ \A other \in plotted : other.company = point.company => other = point
                  /\ point.score = Num(ScoreTotal(rows, CompanyRows(rows, point.company)))
            /\ \A c \in companies :
                  /\ (\A i \in CompanyRows(rows, c) : Income(rows[i]).v <= 0)
                        => \A point \in plotted : point.company # c
                  /\ (\A i \in CompanyRows(rows, c) : Income(rows[i]).v > 0)
                        => \E point \in plotted : point.company = c

\* C15 witness: chart 5 of index.py has drawn a company with an income and
\* left out one whose income is missing or no number
C15_Witness ==
    /\ script = "v2" /\ 5 \in done
    /\ V2Scatter # {}
    /\ \E i \in 1..Len(df.rows) :
          /\ df.rows[i].IngresosOperacionales.k \in {"str", "nan"}
          /\ \A point \in V2Scatter : point.company # df.rows[i].RazonSocial

\* the points of the treemap, chart 4 of GenerateCharts.py
V3Treemap ==
    { [company |-> r.RazonSocial, score |-> r.Puntaje_Total_Sostenibilidad,
       income |-> r.Ingresos_Operacionales] : r \in Html(4) }

\* the first row of a company
FirstRow(rows, company) ==
    rows[CHOOSE i \in CompanyRows(rows, company) :
            \A j \in CompanyRows(rows, company) : i <= j]

\* plotted holds a point for exactly the companies whose first row has an
\* income that coerces to a number > 0, with that income
ByFirstRow(plotted, rows) ==
    \A c \in Categories(rows, "RazonSocial") :
        IF Income(FirstRow(rows, c)).v > 0
        THEN \E point \in plotted :
                point.company = c /\ point.income = Income(FirstRow(rows, c))
        ELSE \A point \in plotted : point.company # c

\* C20: in company_agg_data (treemap and scatter of GenerateCharts.py) and
\* in company_performance (scatter of index.py) a company is kept exactly
\* when the income of its first row coerces to a number > 0, and its income
\* is that of its first row, whatever its later rows carry
C20_IncomeOfFirstRow ==
    /\ (script = "v3" /\ 4 \in done) => ByFirstRow(V3Treemap, raw_data.rows)
    /\ (script = "v3" /\ 14 \in done) => ByFirstRow(V3Scatter, raw_data.rows)
    /\ (script = "v2" /\ 5 \in done) => ByFirstRow(V2Scatter, df.rows)

\* C20 witness: GenerateCharts.py has drawn its scatter without a company
\* whose first row has no income and whose second row has a positive one
C20_Witness ==
    /\ script = "v3" /\ 14 \in done
    /\ V3Scatter # {}
    /\ \E i, j \in 1..Len(csvFile.rows) :
          /\ i < j
          /\ csvFile.rows[i].RazonSocial = csvFile.rows[j].RazonSocial
          /\ csvFile.rows[i].IngresosOperacionales.k = "nan"
          /\ csvFile.rows[j].IngresosOperacionales.k = "num"
          /\ csvFile.rows[j].IngresosOperacionales.v > 0
          /\ \A point \in V3Scatter : point.company # csvFile.rows[i].RazonSocial

(***************************************************************************)
(* C16: the ranked bar charts of index.py.                                 *)
(***************************************************************************)
\* the mean score of the rows of I: the rows without a score are skipped,
\* and the mean of none is null
MeanScore(rows, I) ==
    IF Scored(rows, I) = {} THEN FracNaN
    ELSE Frac(ScoreTotal(rows, I), Cardinality(Scored(rows, I)))

\* table has one row per value of column c in rows, with the mean score of
\* the rows of that value, the larger mean first and the null means last
RankedMeans(table, rows, c) ==
    /\ { table[i].key : i \in 1..Len(table) } = Categories(rows, c)
    /\ Len(table) = Cardinality(Categories(rows, c))
    /\ \A i \in 1..Len(table) :
          table[i].mean = MeanScore(rows, { j \in 1..Len(rows) : rows[j][c] = table[i].key })
    /\ \A i, j \in 1..Len(table) :
          i < j => \/ table[j].mean = FracNaN
                   \/ table[i].mean # FracNaN /\ FracGeq(table[i].mean, table[j].mean)

\* the table chart k of index.py handed to its figure
V2Html(k) == files[Path("charts", V2Names[k], "html")][1]

\* C16: the tables of charts 2 (by pillar) and 14 (by macrosector) of
\* index.py have exactly one row per group of df, the mean of
\* valoracionPonderada over exactly the rows of the group as its value, and
\* their rows in non-increasing order of that value (a group none of whose
\* rows has a score has a null mean and comes last)
C16_RankedMeansOfGroups ==
    script = "v2" =>
        /\ 2 \in done => RankedMeans(V2Html(2), df.rows, "NombrePilar")
        /\ 14 \in done => RankedMeans(V2Html(14), df.rows, "Macrosector")

\* C16 witness: chart 14 has run on a table with two sectors whose order by
\* mean is not their order by name
C16_Witness ==
    /\ script = "v2" /\ 14 \in done
    /\ Len(V2Html(14)) = 2
    /\ StrLt(V2Html(14)[2].key, V2Html(14)[1].key)
    /\ FracGt(V2Html(14)[1].mean, V2Html(14)[2].mean)

(***************************************************************************)
(* C17, C19: wrap_text.                                                    *)
(***************************************************************************)
\* wrap_text has returned
Wrapped == pc = "returned"

\* the text is longer than max_length, so that it is taken apart
TooLong == TextLen(wrapText) > wrapWidth

RECURSIVE WordsOfLines(_)
\* the words of each line of a list of lines, one line after the other
WordsOfLines(ls) ==
    IF ls = <<>> THEN <<>> ELSE Words(Head(ls)) \o WordsOfLines(Tail(ls))

\* a result split on '<br>' and then on spaces
SplitBack(result) == WordsOfLines(Split(result, "<br>", <<>>))

\* the text has the characters '<br>' in it
HasBr(t) == \E i \in 1..Len(t) : t[i] = "<br>"

\* every '<br>' of a result stands between the last letter of a word and the
\* first letter of the next
BreaksBetweenWords(result) ==
    \A i \in 1..Len(result) :
        result[i] = "<br>" =>
            /\ 1 < i /\ i < Len(result)
            /\ result[i - 1] \notin {" ", "<br>"}
            /\ result[i + 1] \notin {" ", "<br>"}

\* C17 (as claimed): wrap_text returns a text of at most max_length
\* characters unchanged, and the result for any longer text, split on '<br>'
\* and then on spaces, is the sequence of the words of the text.
C17_SplitBackGivesWords ==
    Wrapped =>
        IF TooLong THEN SplitBack(wrapped) = Words(wrapText)
        ELSE wrapped = wrapText

\* C17 (amended): wrap_text returns a text of at most max_length characters
\* unchanged; the result for a longer text that does not contain '<br>',
\* split on '<br>' and then on spaces, is the sequence of the words of the
\* text, and each '<br>' of the result stands between two words.
C17_SplitBackGivesWordsWithoutBr ==
    Wrapped =>
        IF TooLong
        THEN ~HasBr(wrapText) =>
                /\ SplitBack(wrapped) = Words(wrapText)
                /\ BreaksBetweenWords(wrapped)
        ELSE wrapped = wrapText

\* a text of three words without '<br>' was wrapped onto two lines, the first
\* of two words
C17_Witness ==
    /\ Wrapped /\ TooLong /\ ~HasBr(wrapText)
    /\ Len(Words(wrapText)) = 3
    /\ Len(packed) = 2 /\ Len(Words(packed[1])) = 2
    /\ HasBr(wrapped)

\* C19: the lines wrap_text makes of a text longer than max_length, which it
\* returns joined by '<br>', are each at most max_length characters long
\* unless the line is one word longer than max_length, and every line after
\* the first begins with a word that, appended after a blank to the line
\* before, would have made it longer than max_length.
C19_LinesFitAndGreedy ==
    (Wrapped /\ TooLong) =>
        /\ wrapped = Join(packed, "<br>")
        /\ \A i \in 1..Len(packed) :
              \/ TextLen(packed[i]) <= wrapWidth
              \/ Len(Words(packed[i])) = 1
        /\ \A i \in 2..Len(packed) :
              TextLen(packed[i - 1]) + 1 + TextLen(Words(packed[i])[1]) > wrapWidth

\* a text was wrapped onto a line of one word longer than max_length and a
\* line of two words
C19_Witness ==
    /\ Wrapped /\ TooLong
    /\ \E i, j \in 1..Len(packed) :
          /\ Len(Words(packed[i])) = 1 /\ TextLen(packed[i]) > wrapWidth
          /\ Len(Words(packed[j])) = 2 /\ TextLen(packed[j]) <= wrapWidth

(***************************************************************************)
(* C18: the diverging bars of GenerateCharts.py.                           *)
(***************************************************************************)
\* the Macrosector of a company: that of its first row that has one
SectorOf(rows, company) == First(Column(Group(rows, [RazonSocial |-> company]), "Macrosector"))

\* the companies of a sector in rows
SectorCompanies(rows, sector) ==
    { c \in Categories(rows, "RazonSocial") : SectorOf(rows, c) = sector }

RECURSIVE TotalOf(_, _)
\* the total scores of the companies of C added up
TotalOf(rows, C) ==
    IF C = {} THEN 0
    ELSE LET c == CHOOSE x \in C : TRUE
         IN  ScoreTotal(rows, CompanyRows(rows, c)) + TotalOf(rows, C \ {c})

\* the mean total score of all the companies of a sector in rows
SectorMean(rows, sector) ==
    Frac(TotalOf(rows, SectorCompanies(rows, sector)),
         Cardinality(SectorCompanies(rows, sector)))

\* the bars of chart 10 of GenerateCharts.py
V3Diverging == Html(10)

\* C18 (as claimed): every bar of the diverging-bar chart is the bar of a
\* company of raw_data, one bar per company; its Diferencia_vs_Promedio is
\* the company's total score minus the mean total score of all the companies
\* of raw_data that have the company's Macrosector, and its label is
\* 'Superior al Promedio' when the difference is >= 0 and 'Inferior al
\* Promedio' otherwise.
C18_DifferenceFromSectorMean ==
    (script = "v3" /\ 10 \in done) =>
        /\ \A b1, b2 \in V3Diverging : b1.RazonSocial = b2.RazonSocial => b1 = b2
        /\ \A bar \in V3Diverging :
              /\ bar.RazonSocial \in Categories(raw_data.rows, "RazonSocial")
              /\ bar.Macrosector = SectorOf(raw_data.rows, bar.RazonSocial)
              /\ bar.Diferencia_vs_Promedio =
                    FracSub(Frac(ScoreTotal(raw_data.rows,
                                            CompanyRows(raw_data.rows, bar.RazonSocial)), 1),
                            SectorMean(raw_data.rows, bar.Macrosector))
              /\ bar.Desempeno_Relativo =
                    IF bar.Diferencia_vs_Promedio.n >= 0
                    THEN "Superior al Promedio" ELSE "Inferior al Promedio"

(***************************************************************************)
(* C21: the box plot and the density plot of GenerateCharts.py.            *)
(***************************************************************************)
\* the data points of chart 11
V3Boxplot == Html(11)

\* the data points of chart 12, of both groups
V3Density == Html(12).Multinacional.points \cup Html(12).Nacional.points

\* the companies of company_agg_data that have a row with a value in column c
WithAttribute(c) ==
    { r.RazonSocial : r \in { q \in ValueOf(company_agg_data) :
        \E i \in CompanyRows(raw_data.rows, q.RazonSocial) : raw_data.rows[i][c] # NaN } }

\* points holds exactly one point of each company of C and no other point
OnePointEach(points, C) ==
    /\ \A company \in C :
          Cardinality({ point \in points : point.RazonSocial = company }) = 1
    /\ \A point \in points : point.RazonSocial \in C

\* C21 (as claimed): every company of company_agg_data with an ownership type
\* is one data point of the box plot, every one with an answer to the
\* multinational question is one data point of the density plot, whatever
\* the rows of the company carry, and a group of the density plot has a
\* curve only when it has more than one company.
C21_OnePointPerCompany ==
    script = "v3" =>
        /\ 11 \in done => OnePointEach(V3Boxplot, WithAttribute("TipoPropiedad"))
        /\ 12 \in done =>
              /\ OnePointEach(V3Density, WithAttribute("Multinacional"))
              /\ \A g \in DOMAIN Html(12) :
                    Html(12)[g].curve =>
                        Cardinality({ point.RazonSocial : point \in Html(12)[g].points }) > 1

(***************************************************************************)
(* C22: the nested bars and the nested scatter of GenerateCharts.py.       *)
(***************************************************************************)
\* the (pillar, variable) pairs of the rows that have a sector
PillarVariables(rows) ==
    { [NombrePilar |-> rows[i].NombrePilar, Variable |-> rows[i].Variable] :
        i \in { j \in 1..Len(rows) : /\ rows[j].NombrePilar # NaN
                                     /\ rows[j].Variable # NaN
                                     /\ rows[j].Macrosector # NaN } }

\* the rows of a pair, and those of them of one sector, by index
RowsOfPair(rows, pair) ==
    { i \in 1..Len(rows) : /\ rows[i].NombrePilar = pair.NombrePilar
                           /\ rows[i].Variable = pair.Variable }

RowsOfSector(rows, pair, sector) ==
    { i \in RowsOfPair(rows, pair) : rows[i].Macrosector = sector }

\* the sectors that have rows of a pair
SectorsOfPair(rows, pair) ==
    { rows[i].Macrosector : i \in RowsOfPair(rows, pair) } \ {NaN}

\* the mean of the per-sector means of a pair
MeanOfSectorMeans(rows, pair) ==
    LET means == [s \in SectorsOfPair(rows, pair) |->
                     MeanScore(rows, RowsOfSector(rows, pair, s))]
    IN  Frac(FracSum(means).n, FracSum(means).d * Cardinality(DOMAIN means))

\* table has one row per (pillar, variable) pair of rows, with a sector of
\* the largest per-sector mean as Sector_Lider, the first of them in sorted
\* order, and the mean of the per-sector means as value
LeadersAndMeans(table, rows) ==
    /\ DOMAIN table = PillarVariables(rows)
    /\ \A pair \in DOMAIN table :
          LET lider == table[pair].Sector_Lider
              Mean(s) == MeanScore(rows, RowsOfSector(rows, pair, s))
          IN  /\ lider \in SectorsOfPair(rows, pair)
              /\ \A s \in SectorsOfPair(rows, pair) \ {lider} :
                    \/ FracGt(Mean(lider), Mean(s))
                    \/ Mean(lider) = Mean(s) /\ StrLt(lider, s)
              /\ table[pair].valoracionPonderada = MeanOfSectorMeans(rows, pair)

\* C22: the tables charts 16 and 17 of GenerateCharts.py plot have one row
\* per (Nombre Pilar, Variable) pair of raw_data; the Sector_Lider of a row
\* is a sector whose mean valoracionPonderada for the pair is the largest,
\* the first in sorted order among equals, and the value of the row is the
\* mean of the per-sector means of the pair.
C22_LeaderAndMeanOfMeans ==
    script = "v3" =>
        /\ 16 \in done => LeadersAndMeans(Html(16), raw_data.rows)
        /\ 17 \in done => LeadersAndMeans(Html(17), raw_data.rows)

\* chart 17 has plotted a pair scored in two sectors whose value is not the
\* mean of the rows of the pair
C22_Witness ==
    /\ script = "v3" /\ 17 \in done
    /\ \E pair \in DOMAIN Html(17) :
          /\ Cardinality(SectorsOfPair(raw_data.rows, pair)) = 2
          /\ Html(17)[pair].valoracionPonderada
                # MeanScore(raw_data.rows, RowsOfPair(raw_data.rows, pair))

====
